---------------------------- MODULE Spec2Model ----------------------------
(***************************************************************************)
(* Retrieval-augmented chat backend (FastAPI routers /chat and             *)
(* /chat/completion over ChatService).  One request is followed from the   *)
(* moment it reaches the hosting layer to its outcome: header dependency,  *)
(* body parsing into the pydantic models, _validate_messages, ChatService  *)
(* construction, one search per message, prompt composition, the           *)
(* completion call, the optional history append, response construction and *)
(* the HTTP response.  A request enters either through a router (which     *)
(* builds ChatService() without a history sink) or through a direct use of *)
(* ChatService(message_history=sink).                                      *)
(*                                                                         *)
(* Python str values that are only compared or passed on are TLA+ strings; *)
(* the retrieved context, on which str.strip() acts, is a sequence of      *)
(* one-character strings, and so is the answer of the completion backend,  *)
(* which streaming hands out in chunks.  None is the value NoneVal.        *)
(***************************************************************************)
EXTENDS Integers, Sequences, FiniteSets, TLC

(***************************************************************************)
(* Bounds of the model.                                                    *)
(***************************************************************************)
MaxMsgs == 2

(***************************************************************************)
(* Program constants.                                                      *)
(***************************************************************************)
\* AZURE_SEARCH_TOP_RESULTS default
TopResults == 3
HTTP_200_OK == 200
HTTP_400_BAD_REQUEST == 400
HTTP_500_INTERNAL_SERVER_ERROR == 500

NoneVal == "<None>"
TrueVal == "True"
FalseVal == "False"

\* class ChatRole(str, Enum), in declaration order
ChatRoleValues == <<"user", "assistant", "system", "ai", "tool">>
ChatRole == {ChatRoleValues[i] : i \in 1..Len(ChatRoleValues)}
ASSISTANT == "assistant"

\* Literal["stop", "length", "content_filter"]
FinishReasonLiteral == {"stop", "length", "content_filter"}

(***************************************************************************)
(* Python helpers.                                                         *)
(***************************************************************************)
\* bool(x) is False for None and for the empty str
Falsy(x) == x = NoneVal \/ x = ""

\* sep.join(parts) on str values
RECURSIVE JoinStr(_, _)
JoinStr(sep, parts) ==
    IF parts = <<>> THEN ""
    ELSE IF Len(parts) = 1 THEN parts[1]
    ELSE parts[1] \o sep \o JoinStr(sep, Tail(parts))

\* sep.join(parts) on character sequences
RECURSIVE JoinChars(_, _)
JoinChars(sep, parts) ==
    IF parts = <<>> THEN <<>>
    ELSE IF Len(parts) = 1 THEN parts[1]
    ELSE parts[1] \o sep \o JoinChars(sep, Tail(parts))

Whitespace == {" ", "\n", "\t"}

RECURSIVE LStrip(_)
LStrip(s) ==
    IF s # <<>> /\ Head(s) \in Whitespace THEN LStrip(Tail(s)) ELSE s

RECURSIVE RStrip(_)
RStrip(s) ==
    IF s # <<>> /\ s[Len(s)] \in Whitespace
    THEN RStrip(SubSeq(s, 1, Len(s) - 1)) ELSE s

\* str.strip()
Strip(s) == RStrip(LStrip(s))


(***************************************************************************)
(* Pydantic models of the request body.  A /chat item is a ChatMessage     *)
(* [role, content]; a /chat/completion item is an ApiChatMessage           *)
(* [role_name, message_content, end_turn_indicator].                       *)
(***************************************************************************)
\* ChatMessage: content: Optional[str] = None; role: ChatRole
ChatMessageErrors(i, m) ==
    IF m.role \in ChatRole THEN <<>>
    ELSE << [loc |-> <<"body", "messages", ToString(i - 1), "role">>,
             type |-> "enum", input |-> m.role] >>

\* ApiChatMessage: role_name: ChatRole; message_content: str, min_length=1;
\* end_turn_indicator: Optional[bool] = True
ApiChatMessageErrors(i, m) ==
    (IF m.role_name \in ChatRole THEN <<>>
     ELSE << [loc |-> <<"body", "data", "messages", ToString(i - 1), "roleName">>,
              type |-> "enum", input |-> m.role_name] >>)
    \o
    (IF m.message_content = NoneVal
     THEN << [loc |-> <<"body", "data", "messages", ToString(i - 1), "messageContent">>,
              type |-> "string_type", input |-> m.message_content] >>
     ELSE IF m.message_content = ""
     THEN << [loc |-> <<"body", "data", "messages", ToString(i - 1), "messageContent">>,
              type |-> "string_too_short", input |-> m.message_content] >>
     ELSE <<>>)

\* Validation of the whole body: pydantic collects the errors of every item
RECURSIVE BodyErrorsFrom(_, _, _)
BodyErrorsFrom(i, msgs, is_completion) ==
    IF i > Len(msgs) THEN <<>>
    ELSE (IF is_completion THEN ApiChatMessageErrors(i, msgs[i])
          ELSE ChatMessageErrors(i, msgs[i]))
         \o BodyErrorsFrom(i + 1, msgs, is_completion)

BodyErrors(msgs, is_completion) == BodyErrorsFrom(1, msgs, is_completion)

(***************************************************************************)
(* _validate_messages: the errors it accumulates, in order.                *)
(***************************************************************************)
RoleList == JoinStr(", ", ChatRoleValues)

EmptyListError == "A lista de mensagens não pode estar vazia."

ContentEmptyError(i) ==
    "O atributo 'content' da mensagem no índice " \o ToString(i - 1)
        \o " não pode estar vazio para /chat."

RoleEmptyError(i) ==
    "O atributo 'role' da mensagem no índice " \o ToString(i - 1)
        \o " não pode estar vazio para /chat."

RoleInvalidError(i) ==
    "O atributo 'role' da mensagem no índice " \o ToString(i - 1)
        \o " deve ser um dos seguintes: " \o RoleList \o " para /chat."

RoleNameEmptyError(i) ==
    "O atributo 'roleName' da mensagem no índice " \o ToString(i - 1)
        \o " não pode estar vazio para /chat/completion."

MessageContentEmptyError(i) ==
    "O atributo 'messageContent' da mensagem no índice " \o ToString(i - 1)
        \o " não pode estar vazio para /chat/completion."

RoleNameInvalidError(i) ==
    "O atributo 'roleName' da mensagem no índice " \o ToString(i - 1)
        \o " deve ser um dos seguintes: " \o RoleList \o " para /chat/completion."

EndTurnIndicatorError(i) ==
    "O atributo 'endTurnIndicator' da mensagem no índice " \o ToString(i - 1)
        \o " não pode ser vazio para /chat/completion."

\* the errors of the item at position i (enumerate index i - 1)
MessageErrors(i, m, is_completion) ==
    IF is_completion
    THEN (IF Falsy(m.role_name) THEN <<RoleNameEmptyError(i)>> ELSE <<>>)
         \o (IF Falsy(m.message_content) THEN <<MessageContentEmptyError(i)>> ELSE <<>>)
         \o (IF m.role_name \notin ChatRole THEN <<RoleNameInvalidError(i)>> ELSE <<>>)
         \o (IF m.end_turn_indicator = NoneVal THEN <<EndTurnIndicatorError(i)>> ELSE <<>>)
    ELSE (IF Falsy(m.content) THEN <<ContentEmptyError(i)>> ELSE <<>>)
         \o (IF Falsy(m.role) THEN <<RoleEmptyError(i)>> ELSE <<>>)
         \o (IF m.role \notin ChatRole THEN <<RoleInvalidError(i)>> ELSE <<>>)

RECURSIVE LoopErrors(_, _, _)
LoopErrors(i, msgs, is_completion) ==
    IF i > Len(msgs) THEN <<>>
    ELSE MessageErrors(i, msgs[i], is_completion)
         \o LoopErrors(i + 1, msgs, is_completion)

\* mutation: the empty-list check is dropped
ValidateMessagesErrors_NoEmptyCheck(msgs, is_completion) ==
    LoopErrors(1, msgs, is_completion)

ValidateMessagesErrors(msgs, is_completion) ==
    (IF msgs = <<>> THEN <<EmptyListError>> ELSE <<>>)
    \o LoopErrors(1, msgs, is_completion)

(***************************************************************************)
(* Inputs.                                                                 *)
(***************************************************************************)
\* items of a /chat body, as received
ChatMessageInputs ==
    { [role |-> "user",    content |-> "q1"],
      [role |-> "ai",      content |-> "q2"],
      [role |-> "user",    content |-> ""],
      [role |-> "ai",      content |-> NoneVal],
      [role |-> "unknown", content |-> "q1"],
      [role |-> "",        content |-> ""] }

\* items of a /chat/completion body, as received
ApiChatMessageInputs ==
    { [role_name |-> "user",    message_content |-> "q1", end_turn_indicator |-> TrueVal],
      [role_name |-> "user",    message_content |-> "q1", end_turn_indicator |-> FalseVal],
      [role_name |-> "ai",      message_content |-> "q2", end_turn_indicator |-> TrueVal],
      [role_name |-> "user",    message_content |-> "q1", end_turn_indicator |-> NoneVal],
      [role_name |-> "user",    message_content |-> "",   end_turn_indicator |-> TrueVal],
      [role_name |-> "unknown", message_content |-> "q1", end_turn_indicator |-> TrueVal],
      [role_name |-> "",        message_content |-> "",   end_turn_indicator |-> FalseVal] }

\* sequences of at most n elements of S
SeqUpTo(S, n) == UNION { [1..k -> S] : k \in 0..n }

\* message objects a direct caller of ChatService can construct
ConstructibleChatMessages == { m \in ChatMessageInputs : ChatMessageErrors(1, m) = <<>> }
ConstructibleApiMessages == { m \in ApiChatMessageInputs : ApiChatMessageErrors(1, m) = <<>> }

\* passages of the search index: content, and sourcepage when the index has it
DocA == [content |-> <<"a">>]
DocB == [content |-> <<" ", "b">>, sourcepage |-> <<"p">>]
DocC == [content |-> <<"c", "\n">>, sourcepage |-> <<"r">>]

\* what one search call can return: at most `top` passages, ranked
SearchReplies ==
    { r \in { <<>>, <<DocA>>, <<DocB, DocA>>, <<DocC, DocB>> } : Len(r) <= TopResults }

\* replies of the completion backend (an AIMessage): content, id and
\* response_metadata, a dict that may lack keys
FullMetadata ==
    [finish_reason |-> "stop",
     token_usage |-> [prompt_tokens |-> 10, completion_tokens |-> 5, total_tokens |-> 15]]

Without(d, k) == [x \in DOMAIN d \ {k} |-> d[x]]

CompletionMetadata ==
    { FullMetadata,
      Without(FullMetadata, "finish_reason"),
      Without(FullMetadata, "token_usage"),
      [FullMetadata EXCEPT !.finish_reason = "tool_calls"],
      [FullMetadata EXCEPT !.finish_reason = NoneVal] }
    \cup { [FullMetadata EXCEPT !.token_usage = Without(FullMetadata.token_usage, k)] :
             k \in DOMAIN FullMetadata.token_usage }

\* completion.content: an answer with runs of whitespace in it
Answer == <<"o", "i", " ", " ", "a", "\n">>

CompletionReplies ==
    { [content |-> Answer, id |-> "abc", response_metadata |-> md] :
        md \in CompletionMetadata }
    \cup { [content |-> Answer, id |-> NoneVal, response_metadata |-> FullMetadata],
           [content |-> <<>>, id |-> "abc", response_metadata |-> FullMetadata] }

\* what the search call and the completion call can raise
SearchErrors == {"HttpResponseError: index not found", "ServiceRequestError: timeout"}
CompletionErrors == {"RateLimitError: quota exceeded", "APIConnectionError: refused"}

\* entries already held by a configured history sink
SinkInit == << [type |-> "human", content |-> "old"] >>

(***************************************************************************)
(* State.                                                                  *)
(***************************************************************************)
VARIABLES
    via,              \* "router" | "service": who calls the pipeline
    endpoint,         \* "chat" (get_chat_completion) | "completion" (get_chat_completion_v2)
    user_id,          \* the user-id header, or NoneVal
    env_ok,           \* whether every required environment variable is set
    stream,           \* ChatRequest.stream
    messages,         \* the message list of the request
    message_history,  \* whether ChatService holds a history sink
    sink,             \* the entries of the history sink
    pc,               \* where the request is
    chat_messages,    \* the internal List[ChatMessage] of the service
    idx,              \* position of the retrieval loop, 1-based
    search_log,       \* the search calls issued: [search_text, top, reply]
    search_context,   \* running context of _retrieve_search_context
    references,       \* running citation list
    context,          \* what _retrieve_search_context returned
    sent,             \* the prompts handed to the completion backend, in call order
    completion,       \* the reply of the completion backend
    response,         \* ChatResponse / ChatCompletionResponse built by the service
    body,             \* content of the HTTP response
    outcome,          \* how the request ended
    other             \* a second request served at the same time: its own locals

vars == << via, endpoint, user_id, env_ok, stream, messages, message_history, sink,
           pc, chat_messages, idx, search_log, search_context, references, context,
           sent, completion, response, body, outcome, other >>

request == << via, endpoint, user_id, env_ok, stream, messages, message_history >>

NoCompletion == [content |-> <<>>, id |-> NoneVal, response_metadata |-> <<>>]
NoResponse == [shape |-> "none"]
NoBody == [shape |-> "none"]
NoOutcome == [kind |-> "none", status |-> 0, detail |-> "", errors |-> <<>>, cause |-> NoneVal]

\* the locals of a call of get_chat_completion that has not begun
NoOther ==
    [pc |-> "idle", messages |-> <<>>, idx |-> 1, search_log |-> <<>>,
     search_context |-> <<>>, references |-> <<>>, context |-> <<>>, sent |-> <<>>,
     completion |-> NoCompletion, response |-> NoResponse]

InitPipeline ==
    /\ chat_messages = <<>>
    /\ idx = 1
    /\ search_log = <<>>
    /\ search_context = <<>>
    /\ references = <<>>
    /\ context = <<>>
    /\ sent = <<>>
    /\ completion = NoCompletion
    /\ response = NoResponse
    /\ body = NoBody
    /\ outcome = NoOutcome

\* a request reaches a router: ChatService() holds no sink
InitRouter ==
    /\ via = "router"
    /\ user_id \in {NoneVal, "12345"}
    /\ env_ok \in BOOLEAN
    /\ \/ /\ endpoint = "chat"
          /\ messages \in SeqUpTo(ChatMessageInputs, MaxMsgs)
          /\ stream \in BOOLEAN
       \/ /\ endpoint = "completion"
          /\ messages \in SeqUpTo(ApiChatMessageInputs, MaxMsgs)
          /\ stream = FALSE
    /\ message_history = FALSE
    /\ sink = <<>>
    /\ pc = "header"

\* ChatService(message_history=sink) is used directly
InitService ==
    /\ via = "service"
    /\ user_id = NoneVal
    /\ env_ok \in BOOLEAN
    /\ \/ /\ endpoint = "chat"
          /\ messages \in SeqUpTo(ConstructibleChatMessages, MaxMsgs)
       \/ /\ endpoint = "completion"
          /\ messages \in SeqUpTo(ConstructibleApiMessages, MaxMsgs)
    /\ stream = FALSE
    /\ message_history = TRUE
    /\ sink = SinkInit
    /\ pc = "construct"

Init == (InitRouter \/ InitService) /\ InitPipeline /\ other = NoOther

(***************************************************************************)
(* How a failure leaves the request.                                       *)
(***************************************************************************)
GenericDetail ==
    IF endpoint = "chat" THEN "Erro ao processar a solicitação de chat."
    ELSE "Erro ao processar a solicitação de conclusão de chat."

\* `except HTTPException: raise e`
\* outcome.errors keeps the list a detail was built from: the `errors` joined by
\* _validate_messages, or the error list of a rejected body
HttpError(code, text) ==
    [kind |-> "http_error", status |-> code, detail |-> text, errors |-> <<>>, cause |-> NoneVal]

\* an exception leaving the service: `except Exception` of the router turns it
\* into a generic 500 (`raise HTTPException(...) from e`: the exception is kept
\* as the cause, which is logged and is no part of the response); a direct
\* caller receives the exception
\* mutation: the text of the exception is handed to the caller
Raised_Leak(exc) ==
    IF via = "router"
    THEN [HttpError(HTTP_500_INTERNAL_SERVER_ERROR, exc) EXCEPT !.cause = exc]
    ELSE [kind |-> "raise", status |-> 0, detail |-> exc, errors |-> <<>>,
          cause |-> NoneVal]

Raised(exc) ==
    IF via = "router"
    THEN [HttpError(HTTP_500_INTERNAL_SERVER_ERROR, GenericDetail) EXCEPT !.cause = exc]
    ELSE [kind |-> "raise", status |-> 0, detail |-> exc, errors |-> <<>>,
          cause |-> NoneVal]

Fail(out) ==
    /\ outcome' = out
    /\ pc' = "done"

(***************************************************************************)
(* Boundary layer.                                                         *)
(***************************************************************************)
UserHeaderError == "O cabeçalho 'user-id' é obrigatório."

\* Depends(_validate_user_header)
ValidateUserHeader ==
    /\ pc = "header"
    /\ IF user_id = NoneVal
       THEN Fail(HttpError(HTTP_400_BAD_REQUEST, UserHeaderError))
       ELSE pc' = "parse" /\ UNCHANGED outcome
    /\ UNCHANGED << request, other, sink, chat_messages, idx, search_log, search_context,
                    references, context, sent, completion, response, body >>

\* Body(...): the body is validated against ChatRequest / ChatCompletionRequest
ParseBody ==
    /\ pc = "parse"
    /\ LET errs == BodyErrors(messages, endpoint = "completion") IN
       IF errs # <<>>
       THEN Fail([kind |-> "http_error", status |-> 422, detail |-> "", errors |-> errs,
             cause |-> NoneVal])
       ELSE pc' = "validate" /\ UNCHANGED outcome
    /\ UNCHANGED << request, other, sink, chat_messages, idx, search_log, search_context,
                    references, context, sent, completion, response, body >>

\* _validate_messages(messages, is_completion), and the handler's
\* `except HTTPException` that re-raises it
ValidateMessages ==
    /\ pc = "validate"
    /\ LET errors == ValidateMessagesErrors(messages, endpoint = "completion") IN
       IF errors # <<>>
       THEN Fail([kind |-> "http_error", status |-> HTTP_400_BAD_REQUEST,
                  detail |-> JoinStr("; ", errors), errors |-> errors,
                  cause |-> NoneVal])
       ELSE pc' = "construct" /\ UNCHANGED outcome
    /\ UNCHANGED << request, other, sink, chat_messages, idx, search_log, search_context,
                    references, context, sent, completion, response, body >>

(***************************************************************************)
(* ChatService.                                                            *)
(***************************************************************************)
\* _validate_env_vars: if not all(required_vars): raise ValueError(...)
EnvVarsError == "ValueError: Uma ou mais variáveis de ambiente não estão definidas."

\* ChatService.__init__, called by the handler for each request (or by a
\* direct user of the service)
ConstructService ==
    /\ pc = "construct"
    /\ IF env_ok
       THEN pc' = "begin" /\ UNCHANGED outcome
       ELSE Fail(Raised(EnvVarsError))
    /\ UNCHANGED << request, other, sink, chat_messages, idx, search_log, search_context,
                    references, context, sent, completion, response, body >>

\* mutation: the internal list is built back to front
Normalize_Reversed(msgs) ==
    [i \in 1..Len(msgs) |->
        [role |-> msgs[Len(msgs) + 1 - i].role_name,
         content |-> msgs[Len(msgs) + 1 - i].message_content]]

\* get_chat_completion_v2: ChatMessage(role=msg.role_name, content=msg.message_content)
Normalize(msgs) ==
    [i \in 1..Len(msgs) |->
        [role |-> msgs[i].role_name, content |-> msgs[i].message_content]]

\* entry of get_chat_completion / get_chat_completion_v2 and of
\* _retrieve_search_context
BeginCompletion ==
    /\ pc = "begin"
    /\ chat_messages' = IF endpoint = "completion" THEN Normalize(messages) ELSE messages
    /\ search_context' = <<>>
    /\ references' = <<>>
    /\ idx' = 1
    /\ pc' = "search"
    /\ UNCHANGED << request, other, sink, search_log, context, sent, completion, response,
                    body, outcome >>

\* mutation: each passage is put in front of the running context
RECURSIVE AppendContents_Prepend(_, _)
AppendContents_Prepend(ctx, results) ==
    IF results = <<>> THEN ctx
    ELSE AppendContents_Prepend(<<"\n">> \o Head(results).content \o ctx, Tail(results))

\* for doc in results: search_context += "\n" + doc["content"]
RECURSIVE AppendContents(_, _)
AppendContents(ctx, results) ==
    IF results = <<>> THEN ctx
    ELSE AppendContents(ctx \o <<"\n">> \o Head(results).content, Tail(results))

\* mutation: a label already captured is not captured again
RECURSIVE AppendReferences_Dedup(_, _)
AppendReferences_Dedup(refs, results) ==
    IF results = <<>> THEN refs
    ELSE AppendReferences_Dedup(
            IF /\ "sourcepage" \in DOMAIN Head(results)
               /\ \A i \in 1..Len(refs) : refs[i] # Head(results).sourcepage
            THEN Append(refs, Head(results).sourcepage) ELSE refs,
            Tail(results))

\* for doc in results: if "sourcepage" in doc: references.append(doc["sourcepage"])
RECURSIVE AppendReferences(_, _)
AppendReferences(refs, results) ==
    IF results = <<>> THEN refs
    ELSE AppendReferences(
            IF "sourcepage" \in DOMAIN Head(results)
            THEN Append(refs, Head(results).sourcepage) ELSE refs,
            Tail(results))

\* mutation: only the last message is used as query
SearchCall_LastOnly(i) ==
    [search_text |-> chat_messages[Len(chat_messages)].content, top |-> TopResults]

SearchCall(i) == [search_text |-> chat_messages[i].content, top |-> TopResults]

\* one turn of `for message in messages`: the search call returns
Search ==
    /\ pc = "search"
    /\ idx <= Len(chat_messages)
    /\ \E results \in SearchReplies :
        /\ search_log' = Append(search_log, [call |-> SearchCall(idx), ok |-> TRUE,
                                             results |-> results])
        /\ search_context' = AppendContents(search_context, results)
        /\ references' = AppendReferences(references, results)
    /\ idx' = idx + 1
    /\ UNCHANGED << request, other, sink, pc, chat_messages, context, sent, completion,
                    response, body, outcome >>

\* mutation: a failed search is skipped and the loop goes on
SearchFails_Skip ==
    /\ pc = "search"
    /\ idx <= Len(chat_messages)
    /\ search_log' = Append(search_log, [call |-> SearchCall(idx), ok |-> FALSE,
                                         results |-> <<>>])
    /\ idx' = idx + 1
    /\ UNCHANGED << request, other, sink, pc, chat_messages, search_context, references,
                    context, sent, completion, response, body, outcome >>

\* the search call raises; get_chat_completion logs and re-raises
SearchFails ==
    /\ pc = "search"
    /\ idx <= Len(chat_messages)
    /\ search_log' = Append(search_log, [call |-> SearchCall(idx), ok |-> FALSE,
                                         results |-> <<>>])
    /\ \E exc \in SearchErrors : Fail(Raised(exc))
    /\ UNCHANGED << request, other, sink, chat_messages, idx, search_context, references,
                    context, sent, completion, response, body >>

ReferencesHeader == <<"\n", "\n", "Referências:", "\n">>

\* if references: search_context += "\n\nReferências:\n" + "\n".join(references)
\* return search_context.strip()
FinalContext(ctx, refs) ==
    Strip(IF refs # <<>> THEN ctx \o ReferencesHeader \o JoinChars(<<"\n">>, refs)
          ELSE ctx)

\* the loop of _retrieve_search_context is over
FinishRetrieval ==
    /\ pc = "search"
    /\ idx > Len(chat_messages)
    /\ context' = FinalContext(search_context, references)
    /\ pc' = "invoke"
    /\ UNCHANGED << request, other, sink, chat_messages, idx, search_log, search_context,
                    references, sent, completion, response, body, outcome >>

\* _create_system_message: context = context or "informações disponíveis"
CreateSystemMessage(ctx) ==
    [type |-> "system",
     content |-> [template |-> "SYSTEM_MESSAGE_TEMPLATE",
                  context |-> IF ctx = <<>> THEN <<"informações disponíveis">> ELSE ctx]]

\* mutation: the user turn is put in front of the system instruction
CreatePrompt_HumanFirst(ctx) ==
    << [part |-> "template", type |-> "human", variable |-> "user_message"],
       [part |-> "placeholder", variable |-> "chat_history"],
       [part |-> "message", message |-> CreateSystemMessage(ctx)] >>

\* _create_prompt: ChatPromptTemplate.from_messages([...])
CreatePrompt(ctx) ==
    << [part |-> "message", message |-> CreateSystemMessage(ctx)],
       [part |-> "placeholder", variable |-> "chat_history"],
       [part |-> "template", type |-> "human", variable |-> "user_message"] >>

\* "{user_message}".format(user_message=v)
FormatValue(v) == IF v = NoneVal THEN "None" ELSE v

\* the messages a prompt template yields for its input
RECURSIVE FormatPrompt(_, _)
FormatPrompt(template, input) ==
    IF template = <<>> THEN <<>>
    ELSE LET p == Head(template) IN
         (CASE p.part = "message" -> <<p.message>>
            [] p.part = "placeholder" -> input[p.variable]
            [] p.part = "template" ->
                 << [type |-> p.type, content |-> FormatValue(input[p.variable])] >>)
         \o FormatPrompt(Tail(template), input)

\* mutation: the messages before the last one are handed over as history
ChainInput_WithPriorTurns(msgs) ==
    [chat_history |-> [i \in 1..(Len(msgs) - 1) |->
                          [type |-> "human", content |-> FormatValue(msgs[i].content)]],
     user_message |-> msgs[Len(msgs)].content]

\* mutation: the first message is taken as the user turn
ChainInput_First(msgs) ==
    [chat_history |-> <<>>, user_message |-> msgs[1].content]

\* history = []; {"chat_history": history, "user_message": messages[-1].content}
ChainInput(msgs) ==
    [chat_history |-> <<>>, user_message |-> msgs[Len(msgs)].content]

\* chain.invoke(...) is called: the prompt goes to the completion backend and
\* the handler waits for it; messages[-1] raises IndexError on an empty list
InvokeCompletion ==
    /\ pc = "invoke"
    /\ IF chat_messages = <<>>
       THEN /\ Fail(Raised("IndexError"))
            /\ UNCHANGED sent
       ELSE /\ sent' = Append(sent, FormatPrompt(CreatePrompt(context),
                                                 ChainInput(chat_messages)))
            /\ pc' = "await"
            /\ UNCHANGED outcome
    /\ UNCHANGED << request, other, sink, chat_messages, idx, search_log, search_context,
                    references, context, completion, response, body >>

\* chain.invoke(...) returns the reply, in full
CompletionReturns ==
    /\ pc = "await"
    /\ \E reply \in CompletionReplies : completion' = reply
    /\ pc' = "history"
    /\ UNCHANGED << request, other, sink, chat_messages, idx, search_log, search_context,
                    references, context, sent, response, body, outcome >>

\* mutation: a failed completion call is tried again
CompletionFails_Retry ==
    /\ pc = "await"
    /\ Len(sent) < 3
    /\ sent' = Append(sent, FormatPrompt(CreatePrompt(context), ChainInput(chat_messages)))
    /\ UNCHANGED << request, other, sink, pc, chat_messages, idx, search_log, search_context,
                    references, context, completion, response, body, outcome >>

\* chain.invoke(...) raises
CompletionFails ==
    /\ pc = "await"
    /\ \E exc \in CompletionErrors : Fail(Raised(exc))
    /\ UNCHANGED << request, other, sink, chat_messages, idx, search_log, search_context,
                    references, context, sent, completion, response, body >>

\* mutation: the answer is recorded before the user turn
HistoryEntries_AnswerFirst(msgs, reply) ==
    << [type |-> "ai", content |-> reply.content],
       [type |-> "human", content |-> msgs[Len(msgs)].content] >>

\* HumanMessage(content=None) is rejected by the message model
HumanMessageError == "ValidationError: HumanMessage.content"

\* what add_messages of the sink can raise
SinkError == "HistoryError: sink unavailable"

\* [HumanMessage(content=messages[-1].content), AIMessage(content=completion.content)]
HistoryEntries(msgs, reply) ==
    << [type |-> "human", content |-> msgs[Len(msgs)].content],
       [type |-> "ai", content |-> reply.content] >>

\* if self._message_history: self._message_history.add_messages([...])
AddMessages ==
    /\ pc = "history"
    /\ IF ~message_history
       THEN pc' = "build" /\ UNCHANGED << sink, outcome >>
       ELSE IF chat_messages[Len(chat_messages)].content = NoneVal
       THEN Fail(Raised(HumanMessageError)) /\ UNCHANGED sink
       ELSE /\ sink' = sink \o HistoryEntries(chat_messages, completion)
            /\ pc' = "build"
            /\ UNCHANGED outcome
    /\ UNCHANGED << request, other, chat_messages, idx, search_log, search_context,
                    references, context, sent, completion, response, body >>

\* add_messages raises
AddMessagesFails ==
    /\ pc = "history"
    /\ message_history
    /\ chat_messages[Len(chat_messages)].content # NoneVal
    /\ Fail(Raised(SinkError))
    /\ UNCHANGED << request, other, sink, chat_messages, idx, search_log, search_context,
                    references, context, sent, completion, response, body >>

(***************************************************************************)
(* Response construction.                                                  *)
(***************************************************************************)
TokenKeys == <<"completion_tokens", "prompt_tokens", "total_tokens">>

\* completion.response_metadata["token_usage"][k], read in this order
TokenUsageError(reply) ==
    LET md == reply.response_metadata IN
    IF "token_usage" \notin DOMAIN md THEN "KeyError"
    ELSE IF \E i \in 1..Len(TokenKeys) : TokenKeys[i] \notin DOMAIN md.token_usage
    THEN "KeyError"
    ELSE ""

\* completion.response_metadata["finish_reason"], then
\* Optional[Literal["stop", "length", "content_filter"]]
FinishReasonError(reply) ==
    LET md == reply.response_metadata IN
    IF "finish_reason" \notin DOMAIN md THEN "KeyError"
    ELSE IF md.finish_reason \notin FinishReasonLiteral \cup {NoneVal} THEN "ValidationError"
    ELSE ""

\* ChatCompletionResponseCommon.id_completion: str
IdCompletionError(reply) == IF reply.id = NoneVal THEN "ValidationError" ELSE ""

\* ApiChatMessage.message_content: str, min_length=1
MessageContentError(reply) == IF reply.content = <<>> THEN "ValidationError" ELSE ""

FirstError(errs) ==
    IF \A i \in 1..Len(errs) : errs[i] = "" THEN ""
    ELSE errs[CHOOSE i \in 1..Len(errs) :
                /\ errs[i] # ""
                /\ \A j \in 1..(i - 1) : errs[j] = ""]

\* the exception raised while building ChatResponse(...), "" if none;
\* ChatResponse.id is Optional[str]
ChatResponseError(reply) ==
    FirstError(<< FinishReasonError(reply), TokenUsageError(reply) >>)

\* the exception raised while building ChatCompletionResponse(...), "" if none
ChatCompletionResponseError(reply) ==
    FirstError(<< TokenUsageError(reply), IdCompletionError(reply),
                  FinishReasonError(reply), MessageContentError(reply) >>)

\* ChatResponse(choices=[ChatChoice(...)], created=..., id=..., usage=ChatUsage(...))
ChatResponseOf(reply) ==
    [shape |-> "ChatResponse",
     choices |-> << [finish_reason |-> reply.response_metadata.finish_reason,
                     index |-> 0,
                     message |-> [content |-> reply.content, role |-> ASSISTANT]] >>,
     created |-> "int(time.time())",
     id |-> reply.id,
     usage |-> [completion_tokens |-> reply.response_metadata.token_usage.completion_tokens,
                prompt_tokens |-> reply.response_metadata.token_usage.prompt_tokens,
                total_tokens |-> reply.response_metadata.token_usage.total_tokens]]

\* ChatCompletionResponse(data=DataChatCompletionResponse(details=..., choices=[...]))
ChatCompletionResponseOf(reply) ==
    [shape |-> "ChatCompletionResponse",
     data |->
       [details |->
          [created_date_time |-> "int(time.time())",
           id_completion |-> reply.id,
           object_type |-> "completion",
           usage |->
             [completion_token_count |-> reply.response_metadata.token_usage.completion_tokens,
              prompt_token_count |-> reply.response_metadata.token_usage.prompt_tokens,
              total_token_count |-> reply.response_metadata.token_usage.total_tokens]],
        choices |->
          << [chat_completion_choice_common |->
                [index_option |-> 0,
                 finish_reason |-> reply.response_metadata.finish_reason],
              message |-> [role_name |-> ASSISTANT,
                           message_content |-> reply.content,
                           end_turn_indicator |-> TrueVal]] >>]]

\* the service builds its response and returns it, or the construction raises
BuildResponse ==
    /\ pc = "build"
    /\ LET err == IF endpoint = "chat" THEN ChatResponseError(completion)
                  ELSE ChatCompletionResponseError(completion) IN
       IF err # ""
       THEN Fail(Raised(err)) /\ UNCHANGED response
       ELSE /\ response' = IF endpoint = "chat" THEN ChatResponseOf(completion)
                           ELSE ChatCompletionResponseOf(completion)
            /\ IF via = "router"
               THEN pc' = "respond" /\ UNCHANGED outcome
               ELSE /\ pc' = "done"
                    /\ outcome' = [kind |-> "return", status |-> 0, detail |-> "",
                                   errors |-> <<>>, cause |-> NoneVal]
    /\ UNCHANGED << request, other, sink, chat_messages, idx, search_log, search_context,
                    references, context, sent, completion, body >>

\* str.split(): the maximal runs of non-whitespace characters
RECURSIVE Split(_)
Split(s) ==
    LET t == LStrip(s) IN
    IF t = <<>> THEN <<>>
    ELSE LET n == IF \E i \in 1..Len(t) : t[i] \in Whitespace
                  THEN (CHOOSE i \in 1..Len(t) :
                            /\ t[i] \in Whitespace
                            /\ \A j \in 1..(i - 1) : t[j] \notin Whitespace) - 1
                  ELSE Len(t) IN
         <<SubSeq(t, 1, n)>> \o Split(SubSeq(t, n + 1, Len(t)))

\* mutation: the answer is handed out word by word, the separators dropped
ResponseGenerator_Words(r) ==
    Split(r.choices[1].message.content)

\* response_generator: for choice in chat_response.choices: yield choice.message.content
ResponseGenerator(r) == [i \in 1..Len(r.choices) |-> r.choices[i].message.content]

\* chat_response.model_dump()
ModelDump(r) == [k \in DOMAIN r \ {"shape"} |-> r[k]]

\* x or True
OrTrue(x) == IF x \in {NoneVal, FalseVal} THEN TrueVal ELSE x

\* response_content of create_chat_completion
ResponseContent(r) ==
    [data |->
       [details |->
          [idCompletion |-> r.data.details.id_completion,
           objectType |-> "completion",
           createdDateTime |-> r.data.details.created_date_time,
           usage |->
             [completionTokenCount |-> r.data.details.usage.completion_token_count,
              promptTokenCount |-> r.data.details.usage.prompt_token_count,
              totalTokenCount |-> r.data.details.usage.total_token_count]],
        choices |->
          [i \in 1..Len(r.data.choices) |->
             [chatCompletionChoiceCommon |->
                [indexOption |-> r.data.choices[i].chat_completion_choice_common.index_option,
                 finishReason |-> r.data.choices[i].chat_completion_choice_common.finish_reason],
              message |->
                [roleName |-> r.data.choices[i].message.role_name,
                 messageContent |-> r.data.choices[i].message.message_content,
                 endTurnIndicator |-> OrTrue(r.data.choices[i].message.end_turn_indicator)]]]]]

\* the handler returns JSONResponse with status 200, or StreamingResponse
\* with status 200, whose body the hosting layer then draws from
\* response_generator() chunk by chunk
Respond ==
    /\ pc = "respond"
    /\ IF endpoint = "chat"
       THEN IF stream
            THEN /\ body' = [shape |-> "stream", chunks |-> <<>>]
                 /\ outcome' = [kind |-> "stream", status |-> HTTP_200_OK, detail |-> "",
                                errors |-> <<>>, cause |-> NoneVal]
                 /\ pc' = "stream"
            ELSE /\ body' = [shape |-> "json", content |-> ModelDump(response)]
                 /\ outcome' = [kind |-> "json", status |-> HTTP_200_OK, detail |-> "",
                                errors |-> <<>>, cause |-> NoneVal]
                 /\ pc' = "done"
       ELSE /\ body' = [shape |-> "json", content |-> ResponseContent(response)]
            /\ outcome' = [kind |-> "json", status |-> HTTP_200_OK, detail |-> "",
                           errors |-> <<>>, cause |-> NoneVal]
            /\ pc' = "done"
    /\ UNCHANGED << request, other, sink, chat_messages, idx, search_log, search_context,
                    references, context, sent, completion, response >>

\* the next `yield` of response_generator reaches the client
EmitChunk ==
    /\ pc = "stream"
    /\ Len(body.chunks) < Len(ResponseGenerator(response))
    /\ body' = [body EXCEPT !.chunks =
                    Append(@, ResponseGenerator(response)[Len(body.chunks) + 1])]
    /\ UNCHANGED << request, other, sink, pc, chat_messages, idx, search_log, search_context,
                    references, context, sent, completion, response, outcome >>

\* response_generator is exhausted: the streamed body is complete
EndStream ==
    /\ pc = "stream"
    /\ Len(body.chunks) = Len(ResponseGenerator(response))
    /\ pc' = "done"
    /\ UNCHANGED << request, other, sink, chat_messages, idx, search_log, search_context,
                    references, context, sent, completion, response, body, outcome >>

\* mutation: a dropped connection makes the request run its completion again
Disconnect_Rerun ==
    /\ pc = "stream"
    /\ pc' = "invoke"
    /\ UNCHANGED << request, other, sink, chat_messages, idx, search_log, search_context,
                    references, context, sent, completion, response, body, outcome >>

\* the client drops the connection while StreamingResponse is being sent:
\* the generator is closed
Disconnect ==
    /\ pc = "stream"
    /\ outcome' = [outcome EXCEPT !.kind = "cancelled"]
    /\ pc' = "done"
    /\ UNCHANGED << request, other, sink, chat_messages, idx, search_log, search_context,
                    references, context, sent, completion, response, body >>

Next ==
    \/ ValidateUserHeader
    \/ ParseBody
    \/ ValidateMessages
    \/ ConstructService
    \/ BeginCompletion
    \/ Search
    \/ SearchFails
    \/ FinishRetrieval
    \/ InvokeCompletion
    \/ CompletionReturns
    \/ CompletionFails
    \/ AddMessages
    \/ AddMessagesFails
    \/ BuildResponse
    \/ Respond
    \/ EmitChunk
    \/ EndStream
    \/ Disconnect

Spec == Init /\ [][Next]_vars

(***************************************************************************)
(* Two requests served at the same time.  The second request runs          *)
(* get_chat_completion on its own ChatService instance (or, for a direct   *)
(* user, on the same instance): its locals are the record `other`.  The    *)
(* history sink, when there is one, is the same object for both.           *)
(***************************************************************************)
OtherMessages == << [role |-> "user", content |-> "q3"] >>

OtherAnswer == <<"x">>

OtherReplies ==
    { [content |-> OtherAnswer, id |-> "xyz", response_metadata |-> FullMetadata] }

\* the variables of the first request that are locals of its handler and service
locals == << pc, chat_messages, idx, search_log, search_context, references, context,
            sent, completion, response, body, outcome >>

InitConcurrent ==
    /\ \/ /\ via = "router"
          /\ user_id = "12345"
          /\ endpoint = "chat"
          /\ stream \in BOOLEAN
          /\ messages \in { << [role |-> "user", content |-> "q1"] >>,
                             << [role |-> "ai", content |-> "q2"],
                                [role |-> "user", content |-> "q1"] >> }
          /\ message_history = FALSE
          /\ sink = <<>>
          /\ pc = "header"
       \/ /\ via = "service"
          /\ user_id = NoneVal
          /\ endpoint = "completion"
          /\ stream = FALSE
          /\ messages = << [role_name |-> "user", message_content |-> "q1",
                            end_turn_indicator |-> TrueVal] >>
          /\ message_history = TRUE
          /\ sink = SinkInit
          /\ pc = "construct"
    /\ env_ok = TRUE
    /\ InitPipeline
    /\ other = [NoOther EXCEPT !.pc = "search", !.messages = OtherMessages]

\* mutation: search_context is one object for all requests
OtherSearch_SharedContext ==
    /\ other.pc = "search"
    /\ other.idx <= Len(other.messages)
    /\ \E results \in SearchReplies :
        /\ other' = [other EXCEPT
              !.search_log = Append(@, [call |-> [search_text |-> other.messages[other.idx].content,
                                                  top |-> TopResults],
                                        ok |-> TRUE, results |-> results]),
              !.references = AppendReferences(@, results),
              !.idx = @ + 1]
        /\ search_context' = AppendContents(search_context, results)
    /\ UNCHANGED << request, sink, pc, chat_messages, idx, search_log, references,
                    context, sent, completion, response, body, outcome >>

\* one turn of `for message in messages` of the second request
OtherSearch ==
    /\ other.pc = "search"
    /\ other.idx <= Len(other.messages)
    /\ \E results \in SearchReplies :
        other' = [other EXCEPT
              !.search_log = Append(@, [call |-> [search_text |-> other.messages[other.idx].content,
                                                  top |-> TopResults],
                                        ok |-> TRUE, results |-> results]),
              !.search_context = AppendContents(@, results),
              !.references = AppendReferences(@, results),
              !.idx = @ + 1]
    /\ UNCHANGED << request, sink, locals >>

\* the search call of the second request raises
OtherSearchFails ==
    /\ other.pc = "search"
    /\ other.idx <= Len(other.messages)
    /\ other' = [other EXCEPT
          !.search_log = Append(@, [call |-> [search_text |-> other.messages[other.idx].content,
                                              top |-> TopResults],
                                    ok |-> FALSE, results |-> <<>>]),
          !.pc = "done"]
    /\ UNCHANGED << request, sink, locals >>

OtherFinishRetrieval ==
    /\ other.pc = "search"
    /\ other.idx > Len(other.messages)
    /\ other' = [other EXCEPT !.context = FinalContext(other.search_context, other.references),
                              !.pc = "invoke"]
    /\ UNCHANGED << request, sink, locals >>

OtherInvokeCompletion ==
    /\ other.pc = "invoke"
    /\ other' = [other EXCEPT
          !.sent = Append(@, FormatPrompt(CreatePrompt(other.context),
                                          ChainInput(other.messages))),
          !.pc = "await"]
    /\ UNCHANGED << request, sink, locals >>

OtherCompletionReturns ==
    /\ other.pc = "await"
    /\ \E reply \in OtherReplies :
        other' = [other EXCEPT !.completion = reply, !.pc = "history"]
    /\ UNCHANGED << request, sink, locals >>

OtherCompletionFails ==
    /\ other.pc = "await"
    /\ other' = [other EXCEPT !.pc = "done"]
    /\ UNCHANGED << request, sink, locals >>

\* the second request records its turn in the sink both requests use
OtherAddMessages ==
    /\ other.pc = "history"
    /\ sink' = IF message_history
               THEN sink \o HistoryEntries(other.messages, other.completion)
               ELSE sink
    /\ other' = [other EXCEPT !.pc = "build"]
    /\ UNCHANGED << request, locals >>

OtherBuildResponse ==
    /\ other.pc = "build"
    /\ other' = [other EXCEPT !.response = ChatResponseOf(other.completion),
                              !.pc = "done"]
    /\ UNCHANGED << request, sink, locals >>

NextConcurrent ==
    \/ Next
    \/ OtherSearch
    \/ OtherSearchFails
    \/ OtherFinishRetrieval
    \/ OtherInvokeCompletion
    \/ OtherCompletionReturns
    \/ OtherCompletionFails
    \/ OtherAddMessages
    \/ OtherBuildResponse

SpecConcurrent == InitConcurrent /\ [][NextConcurrent]_vars

(***************************************************************************)
(* Notions shared by the properties.                                       *)
(***************************************************************************)
\* content of the i-th message of the request, in the shape of its endpoint
ContentOf(i) ==
    IF endpoint = "chat" THEN messages[i].content ELSE messages[i].message_content

RoleOf(i) ==
    IF endpoint = "chat" THEN messages[i].role ELSE messages[i].role_name

\* the request ended with a response (HTTP 200, or a value returned by the service)
Succeeded == pc = "done" /\ outcome.kind \in {"json", "stream", "return"}

\* the request ended with an error
Failed == pc = "done" /\ outcome.kind \in {"http_error", "raise"}

\* _retrieve_search_context has returned its context
RetrievalReturned ==
    \/ pc \in {"invoke", "await", "history", "build", "respond", "stream"}
    \/ pc = "done" /\ sent # <<>>

\* the calls issued to the search backend so far
SearchCalls == [i \in 1..Len(search_log) |-> search_log[i].call]

RECURSIVE Flatten(_)
Flatten(ss) == IF ss = <<>> THEN <<>> ELSE Head(ss) \o Flatten(Tail(ss))

\* every passage the backend returned, by call and then by rank
ReturnedPassages == Flatten([i \in 1..Len(search_log) |-> search_log[i].results])

HasSourcePage(doc) == "sourcepage" \in DOMAIN doc

\* the labels of the passages that expose one, in the order of the passages
RECURSIVE LabelsOf(_)
LabelsOf(ps) ==
    IF ps = <<>> THEN <<>>
    ELSE (IF HasSourcePage(Head(ps)) THEN <<Head(ps).sourcepage>> ELSE <<>>)
         \o LabelsOf(Tail(ps))

ReturnedBodies == [i \in 1..Len(ReturnedPassages) |-> ReturnedPassages[i].content]

ReturnedLabels == LabelsOf(ReturnedPassages)

IsPrefix(a, b) == Len(a) <= Len(b) /\ SubSeq(b, 1, Len(a)) = a

IsSuffix(a, b) == Len(a) <= Len(b) /\ SubSeq(b, Len(b) - Len(a) + 1, Len(b)) = a

Occurrences(c, f) == Cardinality({ i \in 1..Len(f) : f[i] = c })

(***************************************************************************)
(* C1                                                                      *)
(***************************************************************************)
\* C1: a request whose message list is empty is rejected by validation with
\* status 400 and the detail "A lista de mensagens não pode estar vazia.", and
\* neither the search backend nor the completion backend is called for it at
\* any point of the request.
C1_EmptyListRejectedBeforeBackends ==
    (via = "router" /\ messages = <<>>) =>
        /\ search_log = <<>>
        /\ sent = <<>>
        /\ pc \in {"header", "parse", "validate", "done"}
        /\ (pc = "done" /\ user_id # NoneVal) =>
              /\ outcome.kind = "http_error"
              /\ outcome.status = 400
              /\ outcome.detail = "A lista de mensagens não pode estar vazia."

C1_Witness ==
    /\ via = "router"
    /\ messages = <<>>
    /\ user_id # NoneVal
    /\ env_ok
    /\ pc = "done"
    /\ outcome.status = 400

(***************************************************************************)
(* C2                                                                      *)
(***************************************************************************)
\* the validation defects of the received list: empty list, and per item
\* missing role, unknown role, missing content
Defects ==
    (IF messages = <<>> THEN {[defect |-> "empty_list", index |-> 0]} ELSE {})
    \cup { [defect |-> "missing_role", index |-> i] :
             i \in { j \in 1..Len(messages) : RoleOf(j) = "" } }
    \cup { [defect |-> "unknown_role", index |-> i] :
             i \in { j \in 1..Len(messages) : RoleOf(j) \notin ChatRole \cup {""} } }
    \cup { [defect |-> "missing_content", index |-> i] :
             i \in { j \in 1..Len(messages) : Falsy(ContentOf(j)) } }

\* the texts with which _validate_messages reports a defect
ReportTexts(d) ==
    CASE d.defect = "empty_list" -> {EmptyListError}
      [] d.defect = "missing_role" -> {RoleEmptyError(d.index), RoleNameEmptyError(d.index)}
      [] d.defect = "unknown_role" -> {RoleInvalidError(d.index), RoleNameInvalidError(d.index)}
      [] d.defect = "missing_content" ->
             {ContentEmptyError(d.index), MessageContentEmptyError(d.index)}

\* the field of the body a defect is about
DefectField(d) ==
    IF d.defect = "missing_content"
    THEN (IF endpoint = "chat" THEN "content" ELSE "messageContent")
    ELSE (IF endpoint = "chat" THEN "role" ELSE "roleName")

\* the failure that ended the request reports defect d
Reports(d) ==
    IF outcome.status = 400
    THEN \E k \in 1..Len(outcome.errors) : outcome.errors[k] \in ReportTexts(d)
    ELSE \E k \in 1..Len(outcome.errors) :
            LET loc == outcome.errors[k].loc IN
            /\ d.index > 0
            /\ loc[Len(loc) - 1] = ToString(d.index - 1)
            /\ loc[Len(loc)] = DefectField(d)

\* C2: for every message list, on either endpoint, that contains K distinct
\* validation defects (empty list, missing role, missing content, unknown
\* role), the single failure that validation raises reports all K of them:
\* none is omitted.
C2_EveryDefectReported ==
    (via = "router" /\ user_id # NoneVal /\ pc = "done" /\ Defects # {}) =>
        /\ outcome.kind = "http_error"
        /\ outcome.status \in {400, 422}
        /\ \A d \in Defects : Reports(d)

(***************************************************************************)
(* C3                                                                      *)
(***************************************************************************)
\* one search call per message of the request, with its content and topK
ExpectedSearchCalls ==
    [i \in 1..Len(messages) |-> [search_text |-> ContentOf(i), top |-> TopResults]]

\* C3: context retrieval issues one search call per message of the list,
\* whatever its role, in input order, each with that message's content as the
\* query text and the configured topK as the result cap: the calls issued so
\* far are always an initial part of that sequence, and once retrieval has
\* returned they are exactly the n calls of the n messages.
C3_OneSearchPerMessageInOrder ==
    /\ IsPrefix(SearchCalls, ExpectedSearchCalls)
    /\ RetrievalReturned => SearchCalls = ExpectedSearchCalls
    /\ Succeeded => SearchCalls = ExpectedSearchCalls

C3_Witness ==
    /\ via = "router"
    /\ pc = "invoke"
    /\ Len(search_log) = 2
    /\ search_log[1].call.search_text # search_log[2].call.search_text
    /\ RoleOf(1) # RoleOf(2)

(***************************************************************************)
(* C4                                                                      *)
(***************************************************************************)
\* the passage text of a context: what precedes its citations block
PassagePart(ctx) ==
    IF \E i \in 1..Len(ctx) : ctx[i] = "Referências:"
    THEN SubSeq(ctx, 1, (CHOOSE i \in 1..Len(ctx) : ctx[i] = "Referências:") - 1)
    ELSE ctx

\* C4: the passage part of the context returned by _retrieve_search_context
\* is the bodies of all the passages the backend returned, joined by
\* newlines, in message order and within a message in the order the backend
\* returned them, none dropped or repeated, and the context as a whole is
\* trimmed: it has no leading or trailing whitespace.
C4_ContextIsJoinedBodiesTrimmed ==
    RetrievalReturned =>
        /\ Strip(PassagePart(context)) = Strip(JoinChars(<<"\n">>, ReturnedBodies))
        /\ context = Strip(context)
        /\ ReturnedLabels = <<>> => context = Strip(JoinChars(<<"\n">>, ReturnedBodies))
        /\ ReturnedLabels # <<>> =>
              IsPrefix(LStrip(JoinChars(<<"\n">>, ReturnedBodies)), context)

C4_Witness ==
    /\ pc = "invoke"
    /\ Len(search_log) = 2
    /\ search_log[1].results = <<DocC, DocB>>
    /\ search_log[2].results = <<DocB, DocA>>
    /\ context # <<>>

(***************************************************************************)
(* C5                                                                      *)
(***************************************************************************)
\* the citations block: its heading and the labels, one per line
CitationsBlock(labels) == <<"Referências:", "\n">> \o JoinChars(<<"\n">>, labels)

\* C5: the context ends with a citations block ("Referências:") if and only
\* if at least one returned passage exposed a source-page label; the block
\* comes after all the passage text and lists the captured labels one per
\* line in the order they were captured (message order, then result order),
\* duplicates kept.
C5_CitationsBlockIffLabels ==
    RetrievalReturned =>
        /\ (Occurrences("Referências:", context) > 0)
              <=> (\E i \in 1..Len(ReturnedPassages) : HasSourcePage(ReturnedPassages[i]))
        /\ ReturnedLabels # <<>> =>
              /\ IsSuffix(CitationsBlock(ReturnedLabels), context)
              /\ Occurrences("Referências:", context) = 1
              /\ context = Strip(JoinChars(<<"\n">>, ReturnedBodies)
                                  \o <<"\n", "\n">> \o CitationsBlock(ReturnedLabels))

C5_Witness ==
    /\ pc = "invoke"
    /\ Len(search_log) = 2
    /\ search_log[1].results = <<DocC, DocB>>
    /\ search_log[2].results = <<DocB, DocA>>
    /\ ReturnedLabels = << <<"r">>, <<"p">>, <<"p">> >>
    /\ IsSuffix(CitationsBlock(ReturnedLabels), context)

(***************************************************************************)
(* C6                                                                      *)
(***************************************************************************)
\* the turns of a prompt tagged as user turns
UserTurns(prompt) == { i \in 1..Len(prompt) : prompt[i].type = "human" }

\* C6: on both endpoints and whatever the number of prior turns in the
\* inbound list, every prompt sent to the completion backend ends with
\* exactly one user turn, whose content is the content of the last message of
\* the inbound list.
C6_PromptEndsWithLastUserTurn ==
    \A k \in 1..Len(sent) :
        ContentOf(Len(messages)) # NoneVal =>
            /\ UserTurns(sent[k]) = {Len(sent[k])}
            /\ sent[k][Len(sent[k])].content = ContentOf(Len(messages))

C6_Witness ==
    /\ via = "router"
    /\ endpoint = "completion"
    /\ Len(messages) = 2
    /\ ContentOf(1) # ContentOf(2)
    /\ Len(sent) = 1
    /\ sent[1][Len(sent[1])].content = ContentOf(2)

(***************************************************************************)
(* C7                                                                      *)
(***************************************************************************)
\* C7: the completion backend is invoked at most once per request, exactly
\* once for a request that passed validation and retrieval and went on, never
\* again after a call that failed, and only after every search call of the
\* request has returned.
C7_CompletionInvokedOnce ==
    /\ Len(sent) <= 1
    /\ (pc \in {"await", "history", "build", "respond", "stream"} \/ Succeeded) =>
          Len(sent) = 1
    /\ sent # <<>> =>
          /\ Len(search_log) = Len(messages)
          /\ \A i \in 1..Len(search_log) : search_log[i].ok

C7_Witness ==
    /\ via = "router"
    /\ pc = "done"
    /\ outcome.kind = "http_error"
    /\ Len(search_log) = 2
    /\ Len(sent) = 1
    /\ completion = NoCompletion

(***************************************************************************)
(* C8                                                                      *)
(***************************************************************************)
SearchFailed == \E i \in 1..Len(search_log) : ~search_log[i].ok

\* C8: if the search call for a message fails, the request fails: the failed
\* call is the last search issued, the completion backend is not invoked, and
\* no response is built from the passages gathered so far.
C8_SearchFailureFailsRequest ==
    SearchFailed =>
        /\ ~search_log[Len(search_log)].ok
        /\ \A i \in 1..(Len(search_log) - 1) : search_log[i].ok
        /\ Failed
        /\ via = "router" => outcome.status = 500
        /\ sent = <<>>
        /\ context = <<>>
        /\ response = NoResponse
        /\ body = NoBody

C8_Witness ==
    /\ Len(messages) = 2
    /\ Len(search_log) = 1
    /\ ~search_log[1].ok
    /\ pc = "done"

(***************************************************************************)
(* C9                                                                      *)
(***************************************************************************)
\* the reply lacks the finish reason, a token count or the response identifier
LacksField(reply) ==
    \/ reply.id = NoneVal
    \/ "finish_reason" \notin DOMAIN reply.response_metadata
    \/ "token_usage" \notin DOMAIN reply.response_metadata
    \/ \E i \in 1..Len(TokenKeys) :
          TokenKeys[i] \notin DOMAIN reply.response_metadata.token_usage

\* C9: if the reply of the completion backend lacks an expected field (finish
\* reason, prompt, completion or total token count, response identifier), the
\* request fails on both endpoints and no response is produced from it.
C9_MissingFieldFailsRequest ==
    (via = "router" /\ sent # <<>> /\ pc = "done" /\ LacksField(completion)) =>
        /\ Failed
        /\ response = NoResponse
        /\ body = NoBody

(***************************************************************************)
(* C10                                                                     *)
(***************************************************************************)
\* C10: when a history sink is configured and appending to it fails after a
\* successful completion call, the request still succeeds and returns the
\* generated answer.
C10_HistoryFailureDoesNotFailRequest ==
    (message_history /\ completion # NoCompletion /\ pc = "done"
        /\ ChatResponseError(completion) = "" /\ ChatCompletionResponseError(completion) = ""
        /\ ~Falsy(ContentOf(Len(messages))))
    => Succeeded

(***************************************************************************)
(* C11                                                                     *)
(***************************************************************************)
\* what the backend reply carries: the answer text and the token counts
BackendView(reply) ==
    [text |-> reply.content,
     prompt |-> reply.response_metadata.token_usage.prompt_tokens,
     completion |-> reply.response_metadata.token_usage.completion_tokens,
     total |-> reply.response_metadata.token_usage.total_tokens]

\* the same values as a ChatResponse exposes them
SimpleView(r) ==
    [text |-> r.choices[1].message.content,
     prompt |-> r.usage.prompt_tokens,
     completion |-> r.usage.completion_tokens,
     total |-> r.usage.total_tokens]

\* the same values as a ChatCompletionResponse exposes them
RichView(r) ==
    [text |-> r.data.choices[1].message.message_content,
     prompt |-> r.data.details.usage.prompt_token_count,
     completion |-> r.data.details.usage.completion_token_count,
     total |-> r.data.details.usage.total_token_count]

\* the same values in the JSON body of /chat/completion
RichBodyView(c) ==
    [text |-> c.data.choices[1].message.messageContent,
     prompt |-> c.data.details.usage.promptTokenCount,
     completion |-> c.data.details.usage.completionTokenCount,
     total |-> c.data.details.usage.totalTokenCount]

\* C11: for every reply of the completion backend that carries all its
\* fields, the simple response (/chat) and the rich response
\* (/chat/completion) are both built from it, and both expose the prompt,
\* completion and total token counts and the answer text of the reply,
\* unchanged, under their respective field names.
C11_BothShapesExposeBackendValues ==
    (via = "router" /\ pc = "done" /\ completion # NoCompletion
        /\ outcome.kind # "cancelled"
        /\ ~LacksField(completion)
        /\ completion.response_metadata.finish_reason \in FinishReasonLiteral) =>
        /\ Succeeded
        /\ ChatResponseError(completion) = ""
        /\ ChatCompletionResponseError(completion) = ""
        /\ SimpleView(ChatResponseOf(completion)) = BackendView(completion)
        /\ RichView(ChatCompletionResponseOf(completion)) = BackendView(completion)
        /\ endpoint = "chat" => SimpleView(response) = BackendView(completion)
        /\ endpoint = "completion" =>
              /\ RichView(response) = BackendView(completion)
              /\ RichBodyView(body.content) = BackendView(completion)

(***************************************************************************)
(* C12                                                                     *)
(***************************************************************************)
\* whitespace normalization: runs of whitespace become one space, none at
\* the ends
NormalizeWhitespace(s) == JoinChars(<<" ">>, Split(s))

\* the chunks of a streamed body put end to end
Concatenated(chunks) == Flatten(chunks)

\* C12: the chunks emitted in streaming mode on /chat, concatenated in
\* emission order and whitespace-normalized, equal the content of the
\* non-streaming response for the same completion after the same
\* normalization.
C12_StreamEqualsContentNormalized ==
    (pc = "done" /\ outcome.kind = "stream") =>
        NormalizeWhitespace(Concatenated(body.chunks))
            = NormalizeWhitespace(
                  ModelDump(ChatResponseOf(completion)).choices[1].message.content)

C12_Witness ==
    /\ pc = "done"
    /\ stream
    /\ outcome.kind = "stream"
    /\ Len(body.chunks) = 1
    /\ Concatenated(body.chunks) = Answer
    /\ NormalizeWhitespace(Answer) = <<"o", "i", " ", "a">>

(***************************************************************************)
(* C13                                                                     *)
(***************************************************************************)
\* the positions of the request whose role is not system, user or assistant
OutsideThreeRoles ==
    { i \in 1..Len(messages) : RoleOf(i) \notin {"system", "user", "assistant"} }

\* the failure that ended the request names the role at position i
NamesRole(i) ==
    \/ \E k \in 1..Len(outcome.errors) :
          /\ outcome.status = 400
          /\ outcome.errors[k] \in
                {RoleEmptyError(i), RoleInvalidError(i),
                 RoleNameEmptyError(i), RoleNameInvalidError(i)}
    \/ \E k \in 1..Len(outcome.errors) :
          /\ outcome.status = 422
          /\ outcome.errors[k].type = "enum"
          /\ outcome.errors[k].input = RoleOf(i)
          /\ outcome.errors[k].loc[Len(outcome.errors[k].loc) - 1] = ToString(i - 1)

\* C13: a message whose role is not one of system, user, assistant (an empty
\* role included) is never accepted: no search or completion call is made
\* for a request that holds one, and the request ends with a failure that,
\* the roles being the only defects of the list, names every invalid role.
C13_OnlySystemUserAssistantAccepted ==
    OutsideThreeRoles # {} =>
        /\ search_log = <<>>
        /\ sent = <<>>
        /\ (via = "router" /\ user_id # NoneVal /\ pc = "done") => Failed
        /\ (via = "router" /\ user_id # NoneVal /\ pc = "done"
              /\ \A j \in 1..Len(messages) : ~Falsy(ContentOf(j))) =>
              \A i \in OutsideThreeRoles : NamesRole(i)

(***************************************************************************)
(* C14                                                                     *)
(***************************************************************************)
\* get_chat_completion_v2 has built its internal list
Normalized ==
    /\ endpoint = "completion"
    /\ \/ pc \in {"search", "invoke", "await", "history", "build", "respond", "stream"}
       \/ pc = "done" /\ search_log # <<>>

\* the request with other values of endTurnIndicator
WithEndTurnIndicators(f) ==
    [i \in 1..Len(messages) |-> [messages[i] EXCEPT !.end_turn_indicator = f[i]]]

OneInternalMessagePerItem ==
    Normalized =>
        /\ Len(chat_messages) = Len(messages)
        /\ \A i \in 1..Len(messages) :
              /\ DOMAIN chat_messages[i] = {"role", "content"}
              /\ chat_messages[i].role = messages[i].role_name
              /\ chat_messages[i].content = messages[i].message_content
        /\ \A f \in [1..Len(messages) -> {TrueVal, FalseVal, NoneVal}] :
              Normalize(WithEndTurnIndicators(f)) = chat_messages

\* C14: for every valid non-empty list of rich-shape messages, normalization
\* in get_chat_completion_v2 produces exactly one internal message per input
\* item, in the same order, with role equal to roleName and content equal to
\* messageContent; endTurnIndicator has no influence on the result, and the
\* input list is never modified.
C14_NormalizationPreservesOrderAndContent ==
    /\ []OneInternalMessagePerItem
    /\ [][messages' = messages]_vars

C14_Witness ==
    /\ Normalized
    /\ via = "router"
    /\ Len(messages) = 2
    /\ messages[1].role_name # messages[2].role_name
    /\ messages[1].message_content # messages[2].message_content
    /\ messages[1].end_turn_indicator # messages[2].end_turn_indicator
    /\ chat_messages = << [role |-> "ai", content |-> "q2"],
                          [role |-> "user", content |-> "q1"] >>

(***************************************************************************)
(* C15                                                                     *)
(***************************************************************************)
\* the completion call of the request raised
CompletionFailed == pc = "done" /\ sent # <<>> /\ completion = NoCompletion

\* C15: when a search or completion backend call fails, the caller of the
\* router receives status 500 with a detail that is a fixed text of the
\* endpoint, the same whatever the backend raised: the text of the backend's
\* error is no part of the response.
C15_BackendFailureIsGeneric500 ==
    (via = "router" /\ (SearchFailed \/ CompletionFailed)) =>
        /\ pc = "done"
        /\ outcome.kind = "http_error"
        /\ outcome.status = 500
        /\ outcome.detail =
              (IF endpoint = "chat" THEN "Erro ao processar a solicitação de chat."
               ELSE "Erro ao processar a solicitação de conclusão de chat.")
        /\ outcome.cause \in SearchErrors \cup CompletionErrors
        /\ outcome.detail # outcome.cause
        /\ outcome.errors = <<>>
        /\ body = NoBody

C15_Witness ==
    /\ via = "router"
    /\ CompletionFailed
    /\ outcome.status = 500
    /\ outcome.cause = "RateLimitError: quota exceeded"
    /\ outcome.detail = "Erro ao processar a solicitação de conclusão de chat."

(***************************************************************************)
(* C16                                                                     *)
(***************************************************************************)
\* C16: if a required backend credential or endpoint is missing from the
\* configuration, the service does not serve requests, and the
\* missing-configuration error never is the failure of an individual chat
\* request.
C16_ConfigErrorIsNotPerRequest ==
    (via = "router" /\ ~env_ok) =>
        /\ ~Succeeded
        /\ ~(Failed /\ outcome.cause = EnvVarsError)

(***************************************************************************)
(* C17                                                                     *)
(***************************************************************************)
\* C17: when the user-id header is absent the request fails with status 400
\* and the detail "O header user-id é obrigatório." before the pipeline runs:
\* no message validation, search or completion call happens for it. When the
\* header is present the check lets the request through with its identifier.
C17_MissingUserIdRejectedFirst ==
    /\ (via = "router" /\ user_id = NoneVal) =>
          /\ pc \in {"header", "done"}
          /\ search_log = <<>>
          /\ sent = <<>>
          /\ pc = "done" =>
                /\ outcome.kind = "http_error"
                /\ outcome.status = 400
                /\ outcome.errors = <<>>
                /\ outcome.detail = "O header user-id é obrigatório."
    /\ (via = "router" /\ user_id # NoneVal /\ pc = "done") =>
          outcome.detail # UserHeaderError

(***************************************************************************)
(* C18                                                                     *)
(***************************************************************************)
\* the positions of the request whose content is empty
EmptyContents == { i \in 1..Len(messages) : Falsy(ContentOf(i)) }

\* C18: for a /chat list whose roles are valid and in which the message at
\* index i, and no other, has empty content, validation raises an HTTP 400
\* failure whose detail is exactly "O atributo 'content' da mensagem no
\* índice i não pode estar vazio."
C18_EmptyContentDetail ==
    (via = "router" /\ endpoint = "chat" /\ user_id # NoneVal /\ pc = "done"
        /\ Cardinality(EmptyContents) = 1
        /\ \A j \in 1..Len(messages) : RoleOf(j) \in ChatRole) =>
        /\ outcome.kind = "http_error"
        /\ outcome.status = 400
        /\ \A i \in EmptyContents :
              outcome.detail = "O atributo 'content' da mensagem no índice "
                                  \o ToString(i - 1) \o " não pode estar vazio."

(***************************************************************************)
(* C19                                                                     *)
(***************************************************************************)
\* the history handed to the chain with the prompt
SuppliedHistory == ChainInput(chat_messages).chat_history

\* C19: in every prompt sent to the completion backend the system
\* instruction, with the retrieved context interpolated, comes first, then
\* the prior-turn history in its original order, then the final user turn
\* last; the history part does not contain the final turn.
C19_PromptOrder ==
    \A k \in 1..Len(sent) :
        LET prompt == sent[k] IN
        /\ Len(prompt) >= 2
        /\ prompt[1] = CreateSystemMessage(context)
        /\ prompt[1].type = "system"
        /\ context # <<>> => prompt[1].content.context = context
        /\ SubSeq(prompt, 2, Len(prompt) - 1) = SuppliedHistory
        /\ prompt[Len(prompt)].type = "human"
        /\ \A i \in 1..(Len(prompt) - 1) : prompt[i].type # "human"

C19_Witness ==
    /\ Len(sent) = 1
    /\ Len(messages) = 2
    /\ context # <<>>
    /\ sent[1][1].type = "system"
    /\ sent[1][1].content.context = context
    /\ sent[1][Len(sent[1])] = [type |-> "human", content |-> "q1"]

(***************************************************************************)
(* C20                                                                     *)
(***************************************************************************)
\* the history step of the request is over and did not raise
HistoryStepDone ==
    \/ pc \in {"build", "respond", "stream"}
    \/ /\ pc = "done"
       /\ completion # NoCompletion
       /\ outcome.detail \notin {SinkError, HumanMessageError}

\* C20: when a history sink is configured and the completion call succeeds,
\* exactly two entries are appended to the sink for the request, the final
\* user turn's content and then the generated answer, after the completion
\* call returned and the sink took them; what the sink held is kept, and
\* when the search or the completion call fails nothing is appended.
C20_TwoEntriesAfterCompletion ==
    message_history =>
        /\ HistoryStepDone =>
              sink = SinkInit \o
                       << [type |-> "human", content |-> ContentOf(Len(messages))],
                          [type |-> "ai", content |-> completion.content] >>
        /\ ~HistoryStepDone => sink = SinkInit
        /\ Len(sink) > Len(SinkInit) => (Len(sent) = 1 /\ completion # NoCompletion)
        /\ (SearchFailed \/ CompletionFailed) => sink = SinkInit

C20_Witness ==
    /\ message_history
    /\ Succeeded
    /\ Len(messages) = 2
    /\ ContentOf(1) # ContentOf(2)
    /\ Len(sink) = Len(SinkInit) + 2
    /\ sink[Len(sink) - 1].type = "human"
    /\ sink[Len(sink)] = [type |-> "ai", content |-> Answer]

(***************************************************************************)
(* C21                                                                     *)
(***************************************************************************)
\* the whitespace-delimited word groups of a text, in order
WordGroups(text) == Split(text)

\* C21: in streaming mode on /chat the answer is emitted as the ordered
\* sequence of its whitespace-delimited word groups, one chunk per word
\* group, instead of as one body.
C21_StreamIsWordGroups ==
    (pc = "done" /\ outcome.kind = "stream" /\ completion.content # <<>>) =>
        body.chunks = WordGroups(completion.content)

(***************************************************************************)
(* C22                                                                     *)
(***************************************************************************)
\* a completion call was issued and has neither returned nor raised
InFlight == pc = "await"

\* the client dropped the connection of a streamed response
Cancelled == outcome.kind = "cancelled"

\* streaming starts from a reply received in full
StreamAfterCompletion ==
    body.shape = "stream" =>
        /\ completion # NoCompletion
        /\ response = ChatResponseOf(completion)
        /\ Len(sent) = 1
        /\ ~InFlight

\* no backend call is made while or after a response is streamed
NoCallWhileStreaming ==
    (pc = "stream" \/ Cancelled) =>
        /\ search_log' = search_log
        /\ sent' = sent
        /\ completion' = completion

\* C22: in streaming mode the first chunk is emitted only after the
\* completion call of the request has returned in full; cancelling the
\* outbound connection during streaming stops emission, triggers no further
\* search or completion call, and leaves no completion call in flight.
C22_StreamAfterCompletionAndCancel ==
    /\ []StreamAfterCompletion
    /\ [][NoCallWhileStreaming]_vars
    /\ [][Cancelled => body' = body]_vars
    /\ [](Cancelled => (pc = "done" /\ ~InFlight))

C22_Witness ==
    /\ Cancelled
    /\ body.shape = "stream"
    /\ body.chunks = <<>>
    /\ Len(ResponseGenerator(response)) = 1
    /\ completion.content = Answer
    /\ Len(sent) = 1

(***************************************************************************)
(* C23                                                                     *)
(***************************************************************************)
\* the choices of a response as [index, role, finish_reason], in either shape
ChoicesOf(r) ==
    IF r.shape = "ChatResponse"
    THEN [i \in 1..Len(r.choices) |->
            [index |-> r.choices[i].index,
             role |-> r.choices[i].message.role,
             finish_reason |-> r.choices[i].finish_reason]]
    ELSE [i \in 1..Len(r.data.choices) |->
            [index |-> r.data.choices[i].chat_completion_choice_common.index_option,
             role |-> r.data.choices[i].message.role_name,
             finish_reason |-> r.data.choices[i].chat_completion_choice_common.finish_reason]]

\* the finish reason of the backend reply, NoneVal when the key is absent
FinishReasonOf(reply) ==
    IF "finish_reason" \in DOMAIN reply.response_metadata
    THEN reply.response_metadata.finish_reason ELSE NoneVal

\* C23: every successful response, in either shape, carries exactly one
\* choice, with index 0 and role assistant, whose finish reason is one of
\* stop, length, content_filter; a backend reply whose finish reason is
\* anything else never yields a successful response.
C23_OneChoiceWithKnownFinishReason ==
    Succeeded =>
        /\ Len(ChoicesOf(response)) = 1
        /\ ChoicesOf(response)[1].index = 0
        /\ ChoicesOf(response)[1].role = "assistant"
        /\ ChoicesOf(response)[1].finish_reason \in {"stop", "length", "content_filter"}
        /\ FinishReasonOf(completion) \in {"stop", "length", "content_filter"}

(***************************************************************************)
(* C24                                                                     *)
(***************************************************************************)
\* the context _retrieve_search_context builds from the replies to the
\* search calls of one request
OwnContext(log) ==
    LET passages == Flatten([i \in 1..Len(log) |-> log[i].results]) IN
    FinalContext(AppendContents(<<>>, passages), AppendReferences(<<>>, passages))

\* context, prompt and response of the first request come from its own
\* messages and from the replies to its own calls
FirstRequestIsolated ==
    /\ \A i \in 1..Len(search_log) :
          search_log[i].call.search_text = chat_messages[i].content
    /\ RetrievalReturned => context = OwnContext(search_log)
    /\ \A k \in 1..Len(sent) :
          sent[k] = FormatPrompt(CreatePrompt(OwnContext(search_log)),
                                 ChainInput(chat_messages))
    /\ response # NoResponse =>
          response = (IF endpoint = "chat" THEN ChatResponseOf(completion)
                      ELSE ChatCompletionResponseOf(completion))
    /\ completion # NoCompletion => completion.content # OtherAnswer

\* the same for the second request
SecondRequestIsolated ==
    /\ \A i \in 1..Len(other.search_log) :
          other.search_log[i].call.search_text = other.messages[i].content
    /\ other.pc \in {"invoke", "await", "history", "build"} =>
          other.context = OwnContext(other.search_log)
    /\ \A k \in 1..Len(other.sent) :
          other.sent[k] = FormatPrompt(CreatePrompt(OwnContext(other.search_log)),
                                       ChainInput(other.messages))
    /\ other.response # NoResponse =>
          /\ other.response = ChatResponseOf(other.completion)
          /\ other.completion.content = OtherAnswer

\* C24: for any interleaving of two chat requests served at the same time,
\* each request's context, prompt and response depend only on its own
\* messages and on the backend replies to its own calls; a step of one
\* request changes nothing of the other, the shared history sink excepted.
C24_RequestsAreIsolated ==
    /\ [](FirstRequestIsolated /\ SecondRequestIsolated)
    /\ [][other' # other => UNCHANGED locals]_vars
    /\ [][locals' # locals => other' = other]_vars

C24_Witness ==
    /\ pc = "await"
    /\ other.pc = "await"
    /\ context # <<>>
    /\ other.context # <<>>
    /\ context # other.context
    /\ sent[1] # other.sent[1]

(***************************************************************************)
(* C25                                                                     *)
(***************************************************************************)
\* C25: if a chat request ends in an error (validation, search, completion,
\* or building the response from the backend reply), a configured history
\* sink holds exactly the entries it held before the request: entries are
\* added to the sink only by requests that return a successful response.
C25_SinkUnchangedOnError ==
    /\ (message_history /\ Failed) => sink = SinkInit
    /\ (message_history /\ sink # SinkInit /\ pc = "done") => Succeeded

(***************************************************************************)
(* C26                                                                     *)
(***************************************************************************)
\* C26: in every completion call the history handed to the backend is
\* empty: the prompt is the system instruction with the retrieved context
\* and the user turn of the last message, and neither the messages before
\* the last one nor the entries a configured sink held are sent as turns.
C26_HistoryIsEmpty ==
    \A k \in 1..Len(sent) :
        /\ SuppliedHistory = <<>>
        /\ sent[k] = << CreateSystemMessage(context),
                        [type |-> "human",
                         content |-> FormatValue(ContentOf(Len(messages)))] >>
        /\ \A i \in 2..Len(sent[k]) :
              /\ \A j \in 1..(Len(messages) - 1) :
                    sent[k][i] # [type |-> "human", content |-> FormatValue(ContentOf(j))]
                       \/ (i = Len(sent[k]) /\ ContentOf(j) = ContentOf(Len(messages)))
              /\ message_history =>
                    \A j \in 1..Len(SinkInit) : sent[k][i] # SinkInit[j]

C26_Witness ==
    /\ message_history
    /\ sink # <<>>
    /\ Len(messages) = 2
    /\ ContentOf(1) # ContentOf(2)
    /\ Len(sent) = 1
    /\ Len(sent[1]) = 2

(***************************************************************************)
(* C27                                                                     *)
(***************************************************************************)
\* the header check or the validation of the messages rejects the request
ValidationFails ==
    \/ user_id = NoneVal
    \/ BodyErrors(messages, endpoint = "completion") # <<>>
    \/ ValidateMessagesErrors(messages, endpoint = "completion") # <<>>

\* C27: every chat request on either endpoint ends with exactly one
\* outcome: status 400 if and only if the header check or message
\* validation failed, status 500 if and only if a later step raised, and
\* status 200 otherwise; a validation failure is never turned into a 500.
C27_ExactlyOneOutcome ==
    (via = "router" /\ pc = "done") =>
        /\ outcome.kind # "none"
        /\ outcome.status \in {200, 400, 500}
        /\ outcome.status = 400 <=> ValidationFails
        /\ outcome.status = 500 <=> (~ValidationFails /\ outcome.cause # NoneVal)
        /\ outcome.status = 200 <=> (~ValidationFails /\ outcome.cause = NoneVal)
        /\ outcome.status = 200 <=> body # NoBody

=============================================================================
